---- MODULE Spec2Model ----
(***************************************************************************)
(* CampusConvo voice assistant: the wake-word gate (background listener    *)
(* thread), the conversation loop of wake_word_voice_assistant, the        *)
(* endpointed captures they run, and the wake-phrase matching.             *)
(*                                                                         *)
(* The specifications of the module:                                       *)
(*   Spec        the listener threads interleaved with the conversation    *)
(*               loop (src/src/client_wake_word.py);                       *)
(*   SpecCapture one endpointed capture (the gate's capture pass or        *)
(*               record_audio_continuous) fed a classified frame stream;   *)
(*   SpecMatch   the gate's wake-phrase test applied to a transcription;   *)
(*   SpecLive    Spec with the fairness the code's scheduling gives;       *)
(*   SpecFrame   startup and the first frames under a given sample rate    *)
(*               and frame length;                                         *)
(*   SpecServer  the server's /voice/synthesize and /voice/query handlers  *)
(*               over VoicePipeline.synthesize_speech (src/server);        *)
(*   SpecSimple  the loop of the client without wake word                  *)
(*               (src/src/client_simple.py);                               *)
(*   SpecWs      one connection to the server's /ws endpoint, from one of  *)
(*               the client query routines or from any other peer.         *)
(* Text is a tuple of one-character strings, so that lower(), strip() and  *)
(* the substring test are computed character by character.                 *)
(***************************************************************************)
EXTENDS Integers, Sequences, FiniteSets, TLC

VARIABLES
    fps,                  \* frames per second: RECORDING_RATE / RECORDING_CHUNK
    cap,                  \* SpecCapture: the capture under test
    mon,                  \* SpecCapture: observers of the classified stream (history, not program state)
    mt,                   \* SpecMatch: the transcription under test and the gate's verdict
    use_simple_detector,  \* main(): STT-based detector (TRUE) or Porcupine (FALSE)
    is_running,           \* detector.is_running
    audio_stream,         \* detector.audio_stream: "none", "open" or "closed"
    thr,                  \* the listener threads (_listen_loop), by slot
    wake_word_event,      \* the module-level threading.Event
    conv,                 \* the conversation loop: position and locals
    gh,                   \* history of the run (not program state)
    frame,                \* SpecFrame: the audio configuration and the frames read under it
    srv,                  \* SpecServer: the voice pipeline and the request being served
    sc,                   \* SpecSimple: the loop of client_simple.main
    ws                    \* SpecWs: one WebSocket connection, its two ends and the messages in flight

vars == <<fps, cap, mon, mt, use_simple_detector, is_running, audio_stream,
          thr, wake_word_event, conv, gh, frame, srv, sc, ws>>

(***************************************************************************)
(* Bounds of the model.                                                    *)
(***************************************************************************)
\* Requests the server serves in one run
MaxRequests == 2
\* Depth at which the model stops following recursive calls of synthesize_speech
MaxDepth == 3
\* Questions the simple client asks in one run
MaxQuestions == 2
\* Messages a WebSocket peer sends on one connection
MaxQueries == 2
\* Frames per second of the coarse device used where the stream is unconstrained
\* (the real device gives 50).
CaptureFps == 10
\* Frames per second of the coarse device in the interleaving specification.
LoopFps == 2
\* Reads a capture may make beyond its max-duration budget before the model stops it.
ExtraReads == 2
\* Listener threads that may be alive at once.
MaxThreads == 2
\* Frames the model reads under one audio configuration.
FrameReads == 3

(***************************************************************************)
(* Program constants.                                                      *)
(***************************************************************************)
RECORDING_RATE == 16000
RECORDING_CHUNK == 320
\* Durations are in tenths of a second.
LISTEN_MAX_DS == 30
LISTEN_SILENCE_DS == 5
LISTEN_MIN_FRAMES == 5
QUERY_SILENCE_THRESHOLD_DS == 10
QUERY_MAX_DURATION_DS == 100
MIN_CONSECUTIVE_SPEECH_DS == 2
MIN_QUERY_LEN == 3
\* MAX_CONSECUTIVE_ERRORS of server/config.py, which the client does not import
MAX_CONSECUTIVE_ERRORS == 3
\* The count of failed turns the conversation loop holds: it keeps none
\* ("Track consecutive errors if needed (not used currently)").
consecutive_errors == 0

(***************************************************************************)
(* Text.                                                                   *)
(***************************************************************************)
UpperAlpha == <<"A","B","C","D","E","F","G","H","I","J","K","L","M",
                "N","O","P","Q","R","S","T","U","V","W","X","Y","Z">>
LowerAlpha == <<"a","b","c","d","e","f","g","h","i","j","k","l","m",
                "n","o","p","q","r","s","t","u","v","w","x","y","z">>
Whitespace == {" ", "\t", "\n"}

LowerChar(ch) ==
    IF \E i \in 1..26 : UpperAlpha[i] = ch
    THEN LowerAlpha[CHOOSE i \in 1..26 : UpperAlpha[i] = ch]
    ELSE ch

\* str.lower()
Lower(s) == [i \in 1..Len(s) |-> LowerChar(s[i])]

SetMin(S) == CHOOSE x \in S : \A y \in S : x <= y
SetMax(S) == CHOOSE x \in S : \A y \in S : x >= y

\* str.strip()
Strip(s) ==
    LET keep == {i \in 1..Len(s) : s[i] \notin Whitespace}
    IN  IF keep = {} THEN <<>> ELSE SubSeq(s, SetMin(keep), SetMax(keep))

\* needle in hay
Contains(hay, needle) ==
    \E i \in 0..(Len(hay) - Len(needle)) : SubSeq(hay, i + 1, i + Len(needle)) = needle

\* dict.get(key, default)
DictGet(d, key, default) == IF key \in DOMAIN d THEN d[key] ELSE default

\* Python's None, as a value no text equals.
None == <<"None">>

HelloZyra == <<"h","e","l","l","o"," ","z","y","r","a">>
HeyZyra == <<"h","e","y"," ","z","y","r","a">>
\* wake_words passed by wake_word_voice_assistant, lower-cased by __init__
wake_words == <<Lower(HelloZyra), Lower(HeyZyra)>>

ByeZyra == <<"b","y","e"," ","z","y","r","a">>
GoodbyeZyra == <<"g","o","o","d","b","y","e"," ","z","y","r","a">>
ExitWord == <<"e","x","i","t">>
EXIT_COMMANDS == <<ByeZyra, GoodbyeZyra, ExitWord>>


(***************************************************************************)
(* The server's transcription reply (src/server).                          *)
(***************************************************************************)
HelloZyraSpoken == <<"H","e","l","l","o"," ","Z","y","r","a">>
WhereIsSunway == <<"w","h","e","r","e"," ","i","s"," ","s","u","n","w","a","y">>
OkayByeZyra == <<"o","k","a","y"," ","b","y","e"," ","z","y","r","a">>
Hi == <<"h","i">>
Why == <<"W","h","y">>
AnswerText == <<"i","n"," ","k","t","m">>
ErrText == <<"e","r","r">>

\* What Whisper may return for a clip (after correct_transcription).
Utterances == {<<>>, Hi, Why, HelloZyraSpoken, WhereIsSunway, OkayByeZyra}

\* VoicePipeline.transcribe_audio: a text, or an exception.
SttOutcomes == {[ok |-> TRUE, text |-> u] : u \in Utterances} \cup {[ok |-> FALSE, text |-> <<>>]}

\* VoicePipeline.process_voice_query
process_voice_query(stt) ==
    IF stt.ok
    THEN [status |-> "success", transcription |-> stt.text]
    ELSE [status |-> "error", error |-> ErrText]

\* The body of POST /voice/transcribe: VoiceResponse(status, transcription, error)
transcribe_audio(stt) ==
    LET result == process_voice_query(stt)
    IN  [status |-> result["status"],
         transcription |-> DictGet(result, "transcription", None),
         error |-> DictGet(result, "error", None)]

\* What requests.post(.../voice/transcribe) gives its caller: the endpoint's reply
\* (200), the 503 of a server without voice features, or no reply at all
\* (status_code 0: the call raised: connection error, timeout).
NoBody == [detail |-> ErrText]
\* A 200 reply whose body is not a VoiceResponse (no "status" key).
Malformed == [status_code |-> 200, json |-> NoBody]
TranscribeResponses ==
    {[status_code |-> 200, json |-> transcribe_audio(stt)] : stt \in SttOutcomes}
    \cup {[status_code |-> 503, json |-> NoBody], [status_code |-> 0, json |-> NoBody]}
    \cup {Malformed}

(***************************************************************************)
(* Wake-phrase matching (SimpleWakeWordDetector._listen_loop).             *)
(***************************************************************************)
\* text = result.get("text", "").lower().strip()
Normalize_NoLower(t) == Strip(t)
Normalize(t) == Strip(Lower(t))
HeardText(result) == Normalize(DictGet(result, "text", <<>>))

\* for wake_word in self.wake_words: if wake_word in text
DetectWakeWord(text) == \E i \in 1..Len(wake_words) : Contains(text, wake_words[i])

\* any(cmd in query_lower for cmd in EXIT_COMMANDS)
IsExit_Equals(query) == \E i \in 1..Len(EXIT_COMMANDS) : Lower(query) = EXIT_COMMANDS[i]
IsExit(query) == \E i \in 1..Len(EXIT_COMMANDS) : Contains(Lower(query), EXIT_COMMANDS[i])

(***************************************************************************)
(* Endpointed capture.                                                     *)
(***************************************************************************)
\* int(seconds * RECORDING_RATE / RECORDING_CHUNK), seconds given in tenths
FramesIn(ds, f) == (ds * f) \div 10

RealFps == RECORDING_RATE \div RECORDING_CHUNK

\* frames = [], speech_detected = False, silence_frames = 0; reads counts the
\* frames read from the device (the gate's loop index), brk records the break.
NewCapture == [frames |-> <<>>, speech_detected |-> FALSE, silence_frames |-> 0,
               reads |-> 0, brk |-> FALSE]

\* One iteration of the gate's "for _ in range(max_frames)" body, after the read.
GateFrame_NoReset(c, is_speech, limit) ==
    LET n == c.reads + 1 IN
    IF is_speech
    THEN [c EXCEPT !.reads = n, !.speech_detected = TRUE, !.frames = Append(@, n)]
    ELSE IF c.speech_detected
    THEN [c EXCEPT !.reads = n, !.frames = Append(@, n),
                   !.silence_frames = @ + 1, !.brk = (c.silence_frames + 1 > limit)]
    ELSE [c EXCEPT !.reads = n]
GateFrame(c, is_speech, limit) ==
    LET n == c.reads + 1 IN
    IF is_speech
    THEN [c EXCEPT !.reads = n, !.speech_detected = TRUE,
                   !.frames = Append(@, n), !.silence_frames = 0]
    ELSE IF c.speech_detected
    THEN [c EXCEPT !.reads = n, !.frames = Append(@, n),
                   !.silence_frames = @ + 1, !.brk = (c.silence_frames + 1 > limit)]
    ELSE [c EXCEPT !.reads = n]

\* One iteration of record_audio_continuous's "while len(frames) < max_frames" body.
QueryFrame_SkipsSilence(c, is_speech, threshold) ==
    LET n == c.reads + 1 IN
    IF is_speech
    THEN [c EXCEPT !.reads = n, !.speech_detected = TRUE,
                   !.frames = Append(@, n), !.silence_frames = 0]
    ELSE IF c.speech_detected
    THEN [c EXCEPT !.reads = n,
                   !.silence_frames = @ + 1, !.brk = (c.silence_frames + 1 >= threshold)]
    ELSE [c EXCEPT !.reads = n]
QueryFrame_Exceeds(c, is_speech, threshold) ==
    LET n == c.reads + 1 IN
    IF is_speech
    THEN [c EXCEPT !.reads = n, !.speech_detected = TRUE,
                   !.frames = Append(@, n), !.silence_frames = 0]
    ELSE IF c.speech_detected
    THEN [c EXCEPT !.reads = n, !.frames = Append(@, n),
                   !.silence_frames = @ + 1, !.brk = (c.silence_frames + 1 > threshold)]
    ELSE [c EXCEPT !.reads = n]
QueryFrame(c, is_speech, threshold) ==
    LET n == c.reads + 1 IN
    IF is_speech
    THEN [c EXCEPT !.reads = n, !.speech_detected = TRUE,
                   !.frames = Append(@, n), !.silence_frames = 0]
    ELSE IF c.speech_detected
    THEN [c EXCEPT !.reads = n, !.frames = Append(@, n),
                   !.silence_frames = @ + 1, !.brk = (c.silence_frames + 1 >= threshold)]
    ELSE [c EXCEPT !.reads = n]

\* The gate's for loop is over: it broke, or range(max_frames) is exhausted.
GateLoopOver(c, max_frames) == c.brk \/ c.reads >= max_frames
\* record_audio_continuous's while loop is over: it broke, or len(frames) >= max_frames.
QueryLoopOver(c, max_frames) == c.brk \/ Len(c.frames) >= max_frames

\* How the loop was left: by the break on silence, by its budget with speech
\* recorded, or with no speech at all.
Reason(c) ==
    IF c.brk THEN "silence-timeout"
    ELSE IF c.speech_detected THEN "max-duration-reached"
    ELSE "no-speech-detected"

\* if speech_detected and len(frames) > 5: the gate submits the clip
GateSubmits(c) == c.speech_detected /\ Len(c.frames) > LISTEN_MIN_FRAMES


(***************************************************************************)
(* Idle values of the variables a specification does not use.              *)
(***************************************************************************)
Threads == 1..MaxThreads
DeadThread == [pc |-> "dead", c |-> NewCapture, wake |-> FALSE, raised |-> FALSE,
               failed |-> FALSE, late |-> 0]
NoCap == [kind |-> "none", scn |-> "none", threshold |-> 0, max_frames |-> 0,
          c |-> NewCapture, ret |-> "none"]
NoMon == [run |-> 0, sawRun |-> FALSE, trail |-> 0, overrun |-> FALSE, n |-> 0,
          first |-> 0, restarted |-> FALSE]
NoMatch == [text |-> <<>>, expect |-> FALSE, heard |-> <<>>, matched |-> FALSE, done |-> FALSE]
NoConv == [pc |-> "off", q |-> NewCapture, why |-> "none", query |-> <<>>,
           response_text |-> <<>>]
NoGh == [fired |-> FALSE, heard |-> <<>>, calls |-> {}, speech |-> FALSE, failures |-> 0,
         greeting |-> "none"]

LoopIdle ==
    /\ use_simple_detector = FALSE /\ is_running = FALSE /\ audio_stream = "none"
    /\ thr = [t \in Threads |-> DeadThread] /\ wake_word_event = FALSE
    /\ conv = NoConv /\ gh = NoGh
NoSrv == [pc |-> "off", enabled |-> FALSE, rag |-> FALSE, tts_engine |-> "none",
          tts_model |-> FALSE, endpoint |-> "none", configured |-> "none", stack |-> <<>>,
          attempts |-> <<>>, called |-> {}, stt |-> [ok |-> FALSE, text |-> <<>>], rag_out |-> "none",
          tts_out |-> "none", query_text |-> <<>>, answer_text |-> <<>>,
          reply |-> [status_code |-> 0], served |-> 0, fallen |-> FALSE]
NoWs == [client |-> "none", cpc |-> "off", spc |-> "off", rag |-> FALSE, c2s |-> <<>>,
         s2c |-> <<>>, cclosed |-> FALSE, sclosed |-> FALSE, queries |-> 0,
         sent |-> <<>>, failed |-> FALSE]
NoSc == [pc |-> "off", conversation_count |-> 0, heard |-> <<>>, calls |-> {},
         query_text |-> <<>>, answer_text |-> <<>>]
NoFrame == [rate |-> 0, chunk |-> 0, who |-> "none", pc |-> "off", reads |-> 0,
            classified |-> 0, warnings |-> 0]
LoopUnchanged ==
    UNCHANGED <<use_simple_detector, is_running, audio_stream, thr, wake_word_event,
                conv, gh, frame, srv, sc, ws>>

(***************************************************************************)
(* SpecCapture: one capture fed a classified frame stream.                 *)
(*   scn "free"    any classification of each frame, on the coarse device; *)
(*   scn "wake"    silence x5, speech x15, silence x60, on the real device;*)
(*   scn "silence" an all-silence stream of the capture's max-duration     *)
(*                 length, on the real device.                             *)
(***************************************************************************)
\* The classification the stream gives for its n-th frame, when it has one.
StreamGives(scn, n, is_speech, max_frames) ==
    CASE scn = "free" -> TRUE
      [] scn = "wake" -> n <= 80 /\ (is_speech <=> n \in 6..20)
      [] scn = "silence" -> n <= max_frames /\ ~is_speech
      [] OTHER -> FALSE

\* The silence_threshold and max_duration arguments tried on the coarse device.
QuerySilenceArgs == {5, 10}
QueryMaxArgs == {10, 20}

GateCap(scn, f) ==
    [kind |-> "gate", scn |-> scn,
     threshold |-> FramesIn(LISTEN_SILENCE_DS, f), max_frames |-> FramesIn(LISTEN_MAX_DS, f),
     c |-> NewCapture, ret |-> "running"]
QueryCap(scn, f, silence_threshold, max_duration) ==
    [kind |-> "query", scn |-> scn,
     threshold |-> FramesIn(silence_threshold, f), max_frames |-> FramesIn(max_duration, f),
     c |-> NewCapture, ret |-> "running"]

InitCapture ==
    /\ \/ /\ fps = CaptureFps
          /\ \/ cap = GateCap("free", fps)
             \/ \E st \in QuerySilenceArgs, md \in QueryMaxArgs :
                    cap = QueryCap("free", fps, st, md)
       \/ /\ fps = RealFps
          /\ \E scn \in {"wake", "silence"} :
                \/ cap = GateCap(scn, fps)
                \/ cap = QueryCap(scn, fps, QUERY_SILENCE_THRESHOLD_DS, QUERY_MAX_DURATION_DS)
    /\ mon = NoMon
    /\ mt = NoMatch
    /\ frame = NoFrame /\ srv = NoSrv /\ sc = NoSc /\ ws = NoWs
    /\ LoopIdle

\* min-consecutive-speech in frames (MIN_CONSECUTIVE_SPEECH of server/config.py)
MinConsecutive == FramesIn(MIN_CONSECUTIVE_SPEECH_DS, fps)

\* The observers, as one more frame is read: the current run of speech frames
\* (counted up to min-consecutive-speech), whether a run ever reached it, the
\* trailing run of silence frames, whether a frame was read while recording
\* with the trailing silence run already at the threshold, the number of frames
\* read, the number of the first speech frame (0: none yet), and whether a speech
\* frame came after silence that followed speech.
Observe(m, is_speech, recording, threshold) ==
    [run |-> IF is_speech THEN (IF m.run < MinConsecutive THEN m.run + 1 ELSE m.run) ELSE 0,
     sawRun |-> m.sawRun \/ (is_speech /\ m.run + 1 >= MinConsecutive),
     trail |-> IF is_speech THEN 0 ELSE m.trail + 1,
     overrun |-> m.overrun \/ (recording /\ m.trail >= threshold),
     n |-> m.n + 1,
     first |-> IF m.first = 0 /\ is_speech THEN m.n + 1 ELSE m.first,
     restarted |-> m.restarted \/ (is_speech /\ m.first # 0 /\ m.trail > 0)]

GatePassFrame ==
    /\ cap.kind = "gate" /\ cap.ret = "running"
    /\ ~GateLoopOver(cap.c, cap.max_frames)
    /\ \E is_speech \in BOOLEAN :
          /\ StreamGives(cap.scn, cap.c.reads + 1, is_speech, cap.max_frames)
          /\ cap' = [cap EXCEPT !.c = GateFrame(cap.c, is_speech, cap.threshold)]
          /\ mon' = Observe(mon, is_speech, cap.c.speech_detected, cap.threshold)
    /\ UNCHANGED <<fps, mt>> /\ LoopUnchanged

GatePassEnd ==
    /\ cap.kind = "gate" /\ cap.ret = "running"
    /\ GateLoopOver(cap.c, cap.max_frames)
    /\ cap' = [cap EXCEPT !.ret = IF GateSubmits(cap.c) THEN "submit" ELSE "skip"]
    /\ UNCHANGED <<fps, mon, mt>> /\ LoopUnchanged

QueryCaptureFrame ==
    /\ cap.kind = "query" /\ cap.ret = "running"
    /\ ~QueryLoopOver(cap.c, cap.max_frames)
    /\ cap.c.reads < cap.max_frames + ExtraReads
    /\ \E is_speech \in BOOLEAN :
          /\ StreamGives(cap.scn, cap.c.reads + 1, is_speech, cap.max_frames)
          /\ cap' = [cap EXCEPT !.c = QueryFrame(cap.c, is_speech, cap.threshold)]
          /\ mon' = Observe(mon, is_speech, cap.c.speech_detected, cap.threshold)
    /\ UNCHANGED <<fps, mt>> /\ LoopUnchanged

\* if not speech_detected: return None; else the file is written and returned
QueryCaptureEnd ==
    /\ cap.kind = "query" /\ cap.ret = "running"
    /\ QueryLoopOver(cap.c, cap.max_frames)
    /\ cap' = [cap EXCEPT !.ret = IF cap.c.speech_detected THEN "file" ELSE "None"]
    /\ UNCHANGED <<fps, mon, mt>> /\ LoopUnchanged

NextCapture == GatePassFrame \/ GatePassEnd \/ QueryCaptureFrame \/ QueryCaptureEnd

SpecCapture == InitCapture /\ [][NextCapture]_vars


(***************************************************************************)
(* SpecMatch: the gate's wake-phrase test applied to a transcription.      *)
(* Each case is a transcription with the verdict expected of               *)
(* case-insensitive substring containment of "hello zyra" or "hey zyra".   *)
(***************************************************************************)
HelloCommaZyra == <<"H","e","l","l","o",","," ","Z","y","r","a">>
HellOZyra == <<"h","e","l","l"," ","o"," ","z","y","r","a">>
HelloZyraUpper == <<"H","E","L","L","O"," ","Z","Y","R","A">>
HeyZyraSpoken == <<"H","e","y"," ","Z","y","r","a">>
HelloZyraJoined == <<"h","e","l","l","o","z","y","r","a">>
HelloTwoSpacesZyra == <<"h","e","l","l","o"," "," ","z","y","r","a">>
HelloZyr == <<"h","e","l","l","o"," ","z","y","r">>
Please == <<" ","p","l","e","a","s","e">>
OkSpace == <<"O","k"," ">>

MatchCores ==
    {[s |-> HelloZyra, has |-> TRUE], [s |-> HelloZyraSpoken, has |-> TRUE],
     [s |-> HelloZyraUpper, has |-> TRUE], [s |-> HeyZyra, has |-> TRUE],
     [s |-> HeyZyraSpoken, has |-> TRUE], [s |-> HelloCommaZyra, has |-> FALSE],
     [s |-> HellOZyra, has |-> FALSE], [s |-> HelloZyraJoined, has |-> FALSE],
     [s |-> HelloTwoSpacesZyra, has |-> FALSE], [s |-> HelloZyr, has |-> FALSE],
     [s |-> WhereIsSunway, has |-> FALSE], [s |-> <<>>, has |-> FALSE]}
MatchPrefixes == {<<>>, OkSpace, <<" ">>}
MatchSuffixes == {<<>>, Please, <<"!">>, <<" ">>}

InitMatch ==
    /\ \E core \in MatchCores, pre \in MatchPrefixes, suf \in MatchSuffixes :
          mt = [text |-> pre \o core.s \o suf, expect |-> core.has,
                heard |-> <<>>, matched |-> FALSE, done |-> FALSE]
    /\ fps = RealFps /\ cap = NoCap /\ mon = NoMon
    /\ frame = NoFrame /\ srv = NoSrv /\ sc = NoSc /\ ws = NoWs
    /\ LoopIdle

\* text = <transcribed text>.lower().strip(); any wake word in text
MatchTranscription ==
    /\ ~mt.done
    /\ mt' = [mt EXCEPT !.heard = Normalize(mt.text),
                        !.matched = DetectWakeWord(Normalize(mt.text)),
                        !.done = TRUE]
    /\ UNCHANGED <<fps, cap, mon>> /\ LoopUnchanged

NextMatch == MatchTranscription

SpecMatch == InitMatch /\ [][NextMatch]_vars


(***************************************************************************)
(* Spec: the listener threads and the conversation loop.                   *)
(*                                                                         *)
(* A listener thread (slot t of thr) is at                                 *)
(*   "dead"   not started, or returned;                                    *)
(*   "while"  at "while self.is_running";                                  *)
(*   "for"    at the head of the capture loop (STT detector);              *)
(*   "read"   in audio_stream.read(...), a blocking device read;           *)
(*   "post"   past the capture loop, before the clip is submitted;         *)
(*   "http"   in requests.post(.../voice/transcribe);                      *)
(*   "sleep"  in time.sleep(0.1) after an exception.                       *)
(* The conversation loop (conv.pc) is at                                   *)
(*   "start" "wait" "clear" "pause" "greet" "record" "q_read" "q_end"      *)
(*   "abort" "transcribe" "goodbye" "cleanup" "join" "answer" "synth"      *)
(*   "play" "resume" "done";                                               *)
(* conv.why says how the last turn ended ("none" during a turn and before  *)
(* the first).  gh observes the run: fired (an activation event was raised *)
(* since the last resume), and for the current turn heard (the transcript  *)
(* the server sent), calls (the remote calls made after the greeting),     *)
(* speech (the query capture detected speech); failures counts the         *)
(* consecutive failed turns.                                               *)
(***************************************************************************)
GateMaxFrames == FramesIn(LISTEN_MAX_DS, fps)
GateSilenceLimit == FramesIn(LISTEN_SILENCE_DS, fps)
QuerySilenceFrames == FramesIn(QUERY_SILENCE_THRESHOLD_DS, fps)
QueryMaxFrames == FramesIn(QUERY_MAX_DURATION_DS, fps)

Init ==
    /\ fps = LoopFps
    /\ cap = NoCap /\ mon = NoMon /\ mt = NoMatch /\ frame = NoFrame /\ srv = NoSrv /\ sc = NoSc /\ ws = NoWs
    /\ use_simple_detector \in BOOLEAN
    /\ is_running = FALSE
    /\ audio_stream = "none"
    /\ thr = [t \in Threads |-> DeadThread]
    /\ wake_word_event = FALSE
    /\ conv = [NoConv EXCEPT !.pc = "start"]
    /\ gh = NoGh

CaptureUnchanged == UNCHANGED <<fps, cap, mon, mt, use_simple_detector, frame, srv, sc, ws>>

FreeSlots == {t \in Threads : thr[t].pc = "dead"}
\* The device reads a thread has made since pause() with no resume() after it
\* (counted up to 2), as it makes one more.
LateReads(t) == IF ~is_running /\ thr[t].late < 2 THEN thr[t].late + 1 ELSE thr[t].late
NewThread == [DeadThread EXCEPT !.pc = "while"]

\* on_wake_word: wake_word_event.set()
on_wake_word ==
    /\ wake_word_event' = TRUE
    /\ gh' = [gh EXCEPT !.fired = TRUE]

----------------------------------------------------------------------------
(* SimpleWakeWordDetector._listen_loop *)

\* while self.is_running: ... frames = [], speech_detected = False, silence_frames = 0
Simple_While(t) ==
    /\ use_simple_detector /\ thr[t].pc = "while"
    /\ thr' = [thr EXCEPT ![t] = IF is_running
                                 THEN [pc |-> "for", c |-> NewCapture,
                                       wake |-> FALSE, raised |-> FALSE, failed |-> FALSE,
                                       late |-> thr[t].late]
                                 ELSE DeadThread]
    /\ UNCHANGED <<is_running, audio_stream, wake_word_event, conv, gh>>
    /\ CaptureUnchanged

\* for _ in range(max_frames): if not self.is_running: return
Simple_For(t) ==
    /\ use_simple_detector /\ thr[t].pc = "for"
    /\ thr' = [thr EXCEPT ![t] =
                  IF GateLoopOver(thr[t].c, GateMaxFrames) THEN [@ EXCEPT !.pc = "post"]
                  ELSE IF ~is_running THEN DeadThread
                  ELSE [@ EXCEPT !.pc = "read"]]
    /\ UNCHANGED <<is_running, audio_stream, wake_word_event, conv, gh>>
    /\ CaptureUnchanged

\* audio_chunk = self.audio_stream.read(...); is_speech = self.vad.is_speech(...); ...
Simple_Read(t) ==
    /\ use_simple_detector /\ thr[t].pc = "read"
    /\ audio_stream = "open"
    /\ \E is_speech \in BOOLEAN :
          LET c2 == GateFrame(thr[t].c, is_speech, GateSilenceLimit)
          IN  thr' = [thr EXCEPT ![t] = [@ EXCEPT !.c = c2, !.late = LateReads(t),
                                                  !.pc = IF c2.brk THEN "post" ELSE "for"]]
    /\ UNCHANGED <<is_running, audio_stream, wake_word_event, conv, gh>>
    /\ CaptureUnchanged

\* the read raises (device error, stream closed): except Exception: time.sleep(0.1)
Simple_ReadError(t) ==
    /\ use_simple_detector /\ thr[t].pc = "read"
    /\ thr' = [thr EXCEPT ![t] = [@ EXCEPT !.pc = "sleep", !.c = NewCapture,
                                            !.late = LateReads(t)]]
    /\ UNCHANGED <<is_running, audio_stream, wake_word_event, conv, gh>>
    /\ CaptureUnchanged

\* if speech_detected and len(frames) > 5: write the clip and post it
Simple_Post_Always(t) ==
    /\ use_simple_detector /\ thr[t].pc = "post"
    /\ \E written \in BOOLEAN :
          thr' = [thr EXCEPT ![t] =
                     IF written THEN [@ EXCEPT !.pc = "http"]
                     ELSE [@ EXCEPT !.pc = "sleep", !.c = NewCapture]]
    /\ UNCHANGED <<is_running, audio_stream, wake_word_event, conv, gh>>
    /\ CaptureUnchanged
Simple_Post(t) ==
    /\ use_simple_detector /\ thr[t].pc = "post"
    /\ \E written \in BOOLEAN :
          thr' = [thr EXCEPT ![t] =
                     IF ~GateSubmits(thr[t].c) THEN [@ EXCEPT !.pc = "while", !.c = NewCapture]
                     ELSE IF written THEN [@ EXCEPT !.pc = "http"]
                     ELSE [@ EXCEPT !.pc = "sleep", !.c = NewCapture]]
    /\ UNCHANGED <<is_running, audio_stream, wake_word_event, conv, gh>>
    /\ CaptureUnchanged

\* The reply of /voice/transcribe (or the exception, swallowed): the wake-word test.
GateHears(response) ==
    /\ response.status_code = 200
    /\ DictGet(response.json, "status", "None") = "success"
    /\ DetectWakeWord(HeardText(response.json))

\* The transcription the server sent contains a wake phrase.
ServerHeardWake(response) ==
    /\ response.status_code = 200
    /\ DictGet(response.json, "status", "None") = "success"
    /\ DetectWakeWord(Normalize(DictGet(response.json, "transcription", <<>>)))

\* The transcription call failed: it raised, or the reply is no 200 or no success.
TranscribeFailed(response) ==
    ~(response.status_code = 200 /\ DictGet(response.json, "status", "None") = "success")

Simple_Reply_StopsOnFailure(t) ==
    /\ use_simple_detector /\ thr[t].pc = "http"
    /\ \E response \in TranscribeResponses :
          /\ thr' = [thr EXCEPT ![t] =
                        [@ EXCEPT !.pc = IF TranscribeFailed(response) THEN "dead" ELSE "while",
                                  !.c = NewCapture,
                                  !.wake = ServerHeardWake(response),
                                  !.raised = GateHears(response),
                                  !.failed = TranscribeFailed(response)]]
          /\ IF GateHears(response)
             THEN on_wake_word
             ELSE UNCHANGED <<wake_word_event, gh>>
    /\ UNCHANGED <<is_running, audio_stream, conv>>
    /\ CaptureUnchanged
Simple_Reply(t) ==
    /\ use_simple_detector /\ thr[t].pc = "http"
    /\ \E response \in TranscribeResponses :
          /\ thr' = [thr EXCEPT ![t] = [@ EXCEPT !.pc = "while",
                                                  !.c = NewCapture,
                                                  !.wake = ServerHeardWake(response),
                                                  !.raised = GateHears(response),
                                                  !.failed = TranscribeFailed(response)]]
          /\ IF GateHears(response)
             THEN on_wake_word
             ELSE UNCHANGED <<wake_word_event, gh>>
    /\ UNCHANGED <<is_running, audio_stream, conv>>
    /\ CaptureUnchanged

Simple_Sleep(t) ==
    /\ use_simple_detector /\ thr[t].pc = "sleep"
    /\ thr' = [thr EXCEPT ![t] = [@ EXCEPT !.pc = "while"]]
    /\ UNCHANGED <<is_running, audio_stream, wake_word_event, conv, gh>>
    /\ CaptureUnchanged

----------------------------------------------------------------------------
(* WakeWordDetector._listen_loop (Porcupine) *)

\* while self.is_running:
Porcupine_While_NoCheck(t) ==
    /\ ~use_simple_detector /\ thr[t].pc = "while"
    /\ thr' = [thr EXCEPT ![t] = [@ EXCEPT !.pc = "read"]]
    /\ UNCHANGED <<is_running, audio_stream, wake_word_event, conv, gh>>
    /\ CaptureUnchanged
Porcupine_While(t) ==
    /\ ~use_simple_detector /\ thr[t].pc = "while"
    /\ thr' = [thr EXCEPT ![t] = IF is_running THEN [@ EXCEPT !.pc = "read"] ELSE DeadThread]
    /\ UNCHANGED <<is_running, audio_stream, wake_word_event, conv, gh>>
    /\ CaptureUnchanged

\* pcm = self.audio_stream.read(...); keyword_index = self.porcupine.process(pcm)
Porcupine_Read_StopsItself(t) ==
    /\ ~use_simple_detector /\ thr[t].pc = "read"
    /\ audio_stream = "open"
    /\ \E keyword \in BOOLEAN :
          /\ thr' = [thr EXCEPT ![t] = [@ EXCEPT !.pc = "while", !.late = LateReads(t)]]
          /\ IF keyword THEN on_wake_word ELSE UNCHANGED <<wake_word_event, gh>>
          /\ is_running' = (is_running /\ ~keyword)
    /\ UNCHANGED <<audio_stream, conv>>
    /\ CaptureUnchanged
Porcupine_Read(t) ==
    /\ ~use_simple_detector /\ thr[t].pc = "read"
    /\ audio_stream = "open"
    /\ \E keyword \in BOOLEAN :
          /\ thr' = [thr EXCEPT ![t] = [@ EXCEPT !.pc = "while", !.late = LateReads(t)]]
          /\ IF keyword THEN on_wake_word ELSE UNCHANGED <<wake_word_event, gh>>
    /\ UNCHANGED <<is_running, audio_stream, conv>>
    /\ CaptureUnchanged

\* except Exception: break
Porcupine_ReadError(t) ==
    /\ ~use_simple_detector /\ thr[t].pc = "read"
    /\ thr' = [thr EXCEPT ![t] = DeadThread]
    /\ UNCHANGED <<is_running, audio_stream, wake_word_event, conv, gh>>
    /\ CaptureUnchanged


----------------------------------------------------------------------------
(* The detector's methods, called by the conversation loop. *)

\* resume(): if not self.is_running and self.audio_stream: is_running = True; start a thread
detector_resume ==
    IF ~is_running /\ audio_stream # "none"
    THEN /\ FreeSlots # {}
         /\ is_running' = TRUE
         /\ thr' = [t \in Threads |-> IF t = SetMin(FreeSlots) THEN NewThread
                                      ELSE [thr[t] EXCEPT !.late = 0]]
    ELSE UNCHANGED <<is_running, thr>>

\* pause(): self.is_running = False
detector_pause == is_running' = FALSE

----------------------------------------------------------------------------
(* wake_word_voice_assistant *)

\* detector.start(): open the stream and start the listener; on an exception, cleanup()
Start ==
    /\ conv.pc = "start"
    /\ \E opened \in BOOLEAN :
          IF opened
          THEN /\ audio_stream' = "open"
               /\ is_running' = TRUE
               /\ thr' = [thr EXCEPT ![1] = NewThread]
          ELSE /\ audio_stream' = "none"
               /\ is_running' = FALSE
               /\ UNCHANGED thr
    /\ conv' = [conv EXCEPT !.pc = "wait"]
    /\ UNCHANGED <<wake_word_event, gh>>
    /\ CaptureUnchanged

\* wake_word_event.wait()
WaitActivation ==
    /\ conv.pc = "wait"
    /\ wake_word_event
    /\ conv' = [conv EXCEPT !.pc = "clear", !.why = "none"]
    /\ gh' = [gh EXCEPT !.heard = <<>>, !.calls = {}, !.speech = FALSE, !.greeting = "none"]
    /\ UNCHANGED <<is_running, audio_stream, thr, wake_word_event>>
    /\ CaptureUnchanged

\* wake_word_event.clear()
ClearEvent ==
    /\ conv.pc = "clear"
    /\ wake_word_event' = FALSE
    /\ conv' = [conv EXCEPT !.pc = "pause"]
    /\ UNCHANGED <<is_running, audio_stream, thr, gh>>
    /\ CaptureUnchanged

\* detector.pause()
Pause ==
    /\ conv.pc = "pause"
    /\ detector_pause
    /\ conv' = [conv EXCEPT !.pc = "greet"]
    /\ UNCHANGED <<audio_stream, thr, wake_word_event, gh>>
    /\ CaptureUnchanged

\* The greeting: POST /voice/synthesize and play_audio.  It is played, or skipped on
\* a reply that is no success, or the request or the playback raises, which is only
\* a warning.
GreetingOutcomes == {"played", "skipped", "raised"}
Greeting_AbortsOnFailure ==
    /\ conv.pc = "greet"
    /\ \E outcome \in GreetingOutcomes :
          /\ conv' = IF outcome = "raised"
                     THEN [conv EXCEPT !.pc = "abort", !.why = "exception"]
                     ELSE [conv EXCEPT !.pc = "record"]
          /\ gh' = [gh EXCEPT !.greeting = outcome]
    /\ UNCHANGED <<is_running, audio_stream, thr, wake_word_event>>
    /\ CaptureUnchanged
Greeting ==
    /\ conv.pc = "greet"
    /\ \E outcome \in GreetingOutcomes :
          /\ conv' = [conv EXCEPT !.pc = "record"]
          /\ gh' = [gh EXCEPT !.greeting = outcome]
    /\ UNCHANGED <<is_running, audio_stream, thr, wake_word_event>>
    /\ CaptureUnchanged

\* record_audio_continuous: audio.open(...); a failure returns None
RecordOpen ==
    /\ conv.pc = "record"
    /\ \E opened \in BOOLEAN :
          conv' = IF opened
                  THEN [conv EXCEPT !.pc = "q_read", !.q = NewCapture]
                  ELSE [conv EXCEPT !.pc = "abort", !.why = "norec"]
    /\ UNCHANGED <<is_running, audio_stream, thr, wake_word_event, gh>>
    /\ CaptureUnchanged

\* record_audio_continuous keeps no count of the frames it read, only the frames it
\* retained: in the conversation loop they are numbered from the first one retained,
\* and a silent frame read before any speech leaves the capture as it was.
Retained(c) == [c EXCEPT !.reads = Len(c.frames), !.frames = [i \in 1..Len(c.frames) |-> i]]

\* frame = stream.read(...); is_speech = vad.is_speech(...); ... inside
\* while len(frames) < max_frames
QueryRead ==
    /\ conv.pc = "q_read"
    /\ \E is_speech \in BOOLEAN :
          LET q2 == Retained(QueryFrame(conv.q, is_speech, QuerySilenceFrames))
          IN  conv' = [conv EXCEPT !.q = q2,
                                   !.pc = IF QueryLoopOver(q2, QueryMaxFrames)
                                          THEN "q_end" ELSE "q_read"]
    /\ UNCHANGED <<is_running, audio_stream, thr, wake_word_event, gh>>
    /\ CaptureUnchanged

\* the read raises: except Exception: return None
QueryReadError ==
    /\ conv.pc = "q_read"
    /\ conv' = [conv EXCEPT !.pc = "abort", !.why = "norec", !.q = NewCapture]
    /\ UNCHANGED <<is_running, audio_stream, thr, wake_word_event, gh>>
    /\ CaptureUnchanged

\* stream.close(); if not speech_detected: return None; write the file (or fail)
QueryEnd ==
    /\ conv.pc = "q_end"
    /\ \E written \in BOOLEAN :
          conv' = IF conv.q.speech_detected /\ written
                  THEN [conv EXCEPT !.pc = "transcribe", !.q = NewCapture]
                  ELSE [conv EXCEPT !.pc = "abort", !.why = "norec", !.q = NewCapture]
    /\ gh' = [gh EXCEPT !.speech = conv.q.speech_detected]
    /\ UNCHANGED <<is_running, audio_stream, thr, wake_word_event>>
    /\ CaptureUnchanged

\* The observer's count of consecutive failed turns as a turn ends for reason why:
\* a failed remote call adds one (up to MAX_CONSECUTIVE_ERRORS), a completed turn
\* resets it, a turn without actionable input leaves it.
FailedTurns == {"exception", "http_status", "status_error", "answer_failed", "synth_failed",
                "cleanup_exception"}
TurnEnds(why) ==
    gh' = [gh EXCEPT !.fired = FALSE,
                     !.failures = IF why \in FailedTurns
                                  THEN (IF @ < MAX_CONSECUTIVE_ERRORS THEN @ + 1 ELSE @)
                                  ELSE IF why = "completed" THEN 0 ELSE @]

\* detector.resume(); continue (and the two except handlers of the turn)
TurnAbort_NoResume ==
    /\ conv.pc = "abort"
    /\ UNCHANGED <<is_running, thr>>
    /\ conv' = [conv EXCEPT !.pc = "wait"]
    /\ TurnEnds(conv.why)
    /\ UNCHANGED <<audio_stream, wake_word_event>>
    /\ CaptureUnchanged
TurnAbort ==
    /\ conv.pc = "abort"
    /\ detector_resume
    /\ conv' = [conv EXCEPT !.pc = "wait"]
    /\ TurnEnds(conv.why)
    /\ UNCHANGED <<audio_stream, wake_word_event>>
    /\ CaptureUnchanged

\* The transcript a successful reply carries (empty when the reply is no success).
SentTranscript(response) ==
    IF response.status_code = 200 /\ DictGet(response.json, "status", "None") = "success"
    THEN DictGet(response.json, "transcription", <<>>)
    ELSE <<>>

\* The query's transcription: requests.post(.../voice/transcribe) and what follows it.
AfterTranscribe_EmptyOnly(response) ==
    IF response.status_code = 0 THEN [conv EXCEPT !.pc = "abort", !.why = "exception"]
    ELSE IF response.status_code # 200 THEN [conv EXCEPT !.pc = "abort", !.why = "http_status"]
    ELSE IF DictGet(response.json, "status", "None") # "success"
    THEN [conv EXCEPT !.pc = "abort", !.why = "status_error"]
    ELSE LET query == Strip(DictGet(response.json, "transcription", <<>>))
         IN  IF query = <<>>
             THEN [conv EXCEPT !.pc = "abort", !.why = "empty"]
             ELSE IF IsExit(query)
             THEN [conv EXCEPT !.pc = "goodbye", !.query = query]
             ELSE [conv EXCEPT !.pc = "answer", !.query = query]
AfterTranscribe(response) ==
    IF response.status_code = 0 THEN [conv EXCEPT !.pc = "abort", !.why = "exception"]
    ELSE IF response.status_code # 200 THEN [conv EXCEPT !.pc = "abort", !.why = "http_status"]
    ELSE IF DictGet(response.json, "status", "None") # "success"
    THEN [conv EXCEPT !.pc = "abort", !.why = "status_error"]
    ELSE LET query == Strip(DictGet(response.json, "transcription", <<>>))
         IN  IF query = <<>> \/ Len(query) < MIN_QUERY_LEN
             THEN [conv EXCEPT !.pc = "abort", !.why = "empty"]
             ELSE IF IsExit(query)
             THEN [conv EXCEPT !.pc = "goodbye", !.query = query]
             ELSE [conv EXCEPT !.pc = "answer", !.query = query]

Transcribe ==
    /\ conv.pc = "transcribe"
    /\ \E response \in TranscribeResponses :
          /\ conv' = AfterTranscribe(response)
          /\ gh' = [gh EXCEPT !.calls = @ \cup {"transcribe"},
                              !.heard = SentTranscript(response)]
    /\ UNCHANGED <<is_running, audio_stream, thr, wake_word_event>>
    /\ CaptureUnchanged

\* The goodbye: synthesize and play; any failure is only a warning.
Goodbye ==
    /\ conv.pc = "goodbye"
    /\ conv' = [conv EXCEPT !.pc = "cleanup"]
    /\ gh' = [gh EXCEPT !.calls = @ \cup {"synthesize"}]
    /\ UNCHANGED <<is_running, audio_stream, thr, wake_word_event>>
    /\ CaptureUnchanged

\* detector.cleanup(): self.is_running = False; self.thread.join(timeout=1.0)
CleanupStop ==
    /\ conv.pc = "cleanup"
    /\ is_running' = FALSE
    /\ conv' = [conv EXCEPT !.pc = "join"]
    /\ UNCHANGED <<audio_stream, thr, wake_word_event, gh>>
    /\ CaptureUnchanged

\* the join returns (the thread ended, or one second passed); the stream is stopped
\* and closed; return. SimpleWakeWordDetector.cleanup swallows an exception of
\* stop_stream()/close(); WakeWordDetector.cleanup does not, and the exception
\* reaches the turn's "except Exception" handler.
CleanupClose ==
    /\ conv.pc = "join"
    /\ \E raises \in BOOLEAN, closed \in BOOLEAN :
          /\ raises => audio_stream # "none"
          /\ audio_stream' = IF audio_stream = "none" THEN "none"
                              ELSE IF raises /\ ~closed THEN audio_stream
                              ELSE "closed"
          /\ conv' = IF raises /\ ~use_simple_detector
                     THEN [conv EXCEPT !.pc = "abort", !.why = "cleanup_exception"]
                     ELSE [conv EXCEPT !.pc = "done", !.why = "exit"]
    /\ UNCHANGED <<is_running, thr, wake_word_event, gh>>
    /\ CaptureUnchanged

\* response_text = await send_query_and_get_response(query): the answer, or ""
Answer_AlwaysSynth ==
    /\ conv.pc = "answer"
    /\ \E response_text \in {<<>>, AnswerText} :
          conv' = [conv EXCEPT !.response_text = response_text,
                               !.why = IF response_text # <<>> THEN @ ELSE "answer_failed",
                               !.pc = "synth"]
    /\ gh' = [gh EXCEPT !.calls = @ \cup {"answer"}]
    /\ UNCHANGED <<is_running, audio_stream, thr, wake_word_event>>
    /\ CaptureUnchanged
Answer ==
    /\ conv.pc = "answer"
    /\ \E response_text \in {<<>>, AnswerText} :
          conv' = [conv EXCEPT !.response_text = response_text,
                               !.why = IF response_text # <<>> THEN @ ELSE "answer_failed",
                               !.pc = IF response_text # <<>> THEN "synth" ELSE "resume"]
    /\ gh' = [gh EXCEPT !.calls = @ \cup {"answer"}]
    /\ UNCHANGED <<is_running, audio_stream, thr, wake_word_event>>
    /\ CaptureUnchanged

\* requests.post(.../voice/synthesize) for the answer; a failure is only a warning
Synthesize ==
    /\ conv.pc = "synth"
    /\ \E ok \in BOOLEAN :
          conv' = [conv EXCEPT !.pc = IF ok THEN "play" ELSE "resume",
                               !.why = IF ok THEN @ ELSE "synth_failed"]
    /\ gh' = [gh EXCEPT !.calls = @ \cup {"synthesize"}]
    /\ UNCHANGED <<is_running, audio_stream, thr, wake_word_event>>
    /\ CaptureUnchanged

\* play_audio(TEMP_RESPONSE_FILE)
Play ==
    /\ conv.pc = "play"
    /\ conv' = [conv EXCEPT !.pc = "resume"]
    /\ UNCHANGED <<is_running, audio_stream, thr, wake_word_event, gh>>
    /\ CaptureUnchanged

\* detector.resume() at the end of the turn
TurnComplete ==
    /\ conv.pc = "resume"
    /\ detector_resume
    /\ conv' = [conv EXCEPT !.pc = "wait",
                         !.why = IF @ = "none" THEN "completed" ELSE @,
                         !.query = <<>>, !.response_text = <<>>]
    /\ TurnEnds(IF conv.why = "none" THEN "completed" ELSE conv.why)
    /\ UNCHANGED <<audio_stream, wake_word_event>>
    /\ CaptureUnchanged

Listener ==
    \E t \in Threads :
        \/ Simple_While(t) \/ Simple_For(t) \/ Simple_Read(t) \/ Simple_ReadError(t)
        \/ Simple_Post(t) \/ Simple_Reply(t) \/ Simple_Sleep(t)
        \/ Porcupine_While(t) \/ Porcupine_Read(t) \/ Porcupine_ReadError(t)

Conversation ==
    \/ Start \/ WaitActivation \/ ClearEvent \/ Pause \/ Greeting
    \/ RecordOpen \/ QueryRead \/ QueryReadError \/ QueryEnd \/ TurnAbort
    \/ Transcribe \/ Goodbye \/ CleanupStop \/ CleanupClose
    \/ Answer \/ Synthesize \/ Play \/ TurnComplete

Next == Listener \/ Conversation

Spec == Init /\ [][Next]_vars

\* The steps of the conversation loop that are bound to complete: local steps,
\* device reads, playback of a finite file, and the requests.post calls, which carry
\* timeout=REQUEST_TIMEOUT (a reply, or an exception when the time is up).
\* Answer is not among them: send_query_and_get_response awaits websocket.recv()
\* with no timeout, so it completes only if the server replies or closes.
TimedSteps ==
    \/ Start \/ WaitActivation \/ ClearEvent \/ Pause \/ Greeting
    \/ RecordOpen \/ QueryRead \/ QueryReadError \/ QueryEnd \/ TurnAbort
    \/ Transcribe \/ Goodbye \/ CleanupStop \/ CleanupClose
    \/ Synthesize \/ Play \/ TurnComplete

\* Spec with the scheduling the code has: the listener threads and the conversation
\* loop keep running, and every step with a timeout completes.
SpecLive == Init /\ [][Next]_vars /\ WF_vars(Listener) /\ WF_vars(TimedSteps)



(***************************************************************************)
(* SpecFrame: the assistant started under a sample rate and a frame length *)
(* (RECORDING_RATE, RECORDING_CHUNK), up to the first frames given to      *)
(* webrtcvad, by the gate's loop (who = "gate") or by                      *)
(* record_audio_continuous (who = "query").  frame.pc is at                *)
(*   "startup" main() and wake_word_voice_assistant up to detector.start();*)
(*   "loop"    the head of the capture loop;                               *)
(*   "vad"     a frame was read and is given to vad.is_speech;             *)
(*   "sleep"   the gate's except handler (warning, time.sleep(0.1));       *)
(*   "none"    record_audio_continuous returned None from its handler.     *)
(***************************************************************************)
FrameRates == {8000, 16000, 32000, 48000}
FrameChunks == {80, 160, 240, 320, 480, 512, 640, 960, 1024}
\* The frame durations webrtcvad accepts, in milliseconds.
VadFrameMs == {10, 20, 30}

\* vad.is_speech(frame, rate) accepts the frame: otherwise it raises.
LegalFrame(rate, chunk) ==
    rate \in FrameRates /\ \E ms \in VadFrameMs : chunk * 1000 = rate * ms

InitFrame ==
    /\ \E rate \in FrameRates, chunk \in FrameChunks, who \in {"gate", "query"} :
          frame = [NoFrame EXCEPT !.rate = rate, !.chunk = chunk, !.who = who,
                                  !.pc = "startup"]
    /\ fps = RealFps /\ cap = NoCap /\ mon = NoMon /\ mt = NoMatch
    /\ srv = NoSrv /\ sc = NoSc /\ ws = NoWs
    /\ LoopIdle

FrameOthersUnchanged ==
    UNCHANGED <<fps, cap, mon, mt, use_simple_detector, is_running, audio_stream, thr,
                wake_word_event, conv, gh, srv, sc, ws>>

\* main(), wake_word_voice_assistant, detector.start() / audio.open(rate=RECORDING_RATE,
\* frames_per_buffer=RECORDING_CHUNK): the stream is opened with the values as given.
FrameStartup ==
    /\ frame.pc = "startup"
    /\ frame' = [frame EXCEPT !.pc = "loop"]
    /\ FrameOthersUnchanged

\* audio_stream.read(RECORDING_CHUNK) / stream.read(RECORDING_CHUNK)
FrameRead ==
    /\ frame.pc = "loop"
    /\ frame.reads < FrameReads
    /\ frame' = [frame EXCEPT !.pc = "vad", !.reads = @ + 1]
    /\ FrameOthersUnchanged

\* is_speech = vad.is_speech(chunk, RECORDING_RATE): the frame is classified, or the
\* call raises and the enclosing handler takes over (the gate warns and sleeps,
\* record_audio_continuous returns None).
FrameClassify ==
    /\ frame.pc = "vad"
    /\ frame' = IF LegalFrame(frame.rate, frame.chunk)
                THEN [frame EXCEPT !.pc = "loop", !.classified = @ + 1]
                ELSE [frame EXCEPT !.pc = IF frame.who = "gate" THEN "sleep" ELSE "none",
                                   !.warnings = @ + 1]
    /\ FrameOthersUnchanged

\* time.sleep(0.1), then while self.is_running again
FrameSleep ==
    /\ frame.pc = "sleep"
    /\ frame' = [frame EXCEPT !.pc = "loop"]
    /\ FrameOthersUnchanged

NextFrame == FrameStartup \/ FrameRead \/ FrameClassify \/ FrameSleep

SpecFrame == InitFrame /\ [][NextFrame]_vars

(***************************************************************************)
(* SpecServer: the server's voice endpoints (src/server/api_server.py)     *)
(* over VoicePipeline (src/server/voice_pipeline.py), one request at a     *)
(* time.  srv.pc is at                                                     *)
(*   "idle"       between requests (srv.reply is the last reply);          *)
(*   "vq_stt", "vq_rag"  steps 1 and 2 of voice_query;                     *)
(*   "tts_enter"  the entry of synthesize_speech (also of a recursive      *)
(*                call; srv.stack holds where each pending call was made:  *)
(*                "try" inside the try block, "except" inside the handler);*)
(*   "tts_try"    the engine branches inside the try block;                *)
(*   "tts_except" the except handler;                                      *)
(*   "tts_return", "tts_raise"  the call returns audio / raises.           *)
(* srv.attempts lists the engines asked to synthesize in this request;     *)
(* srv.fallen tells whether a call has ever fallen back to gtts (history). *)
(***************************************************************************)
\* TTS_ENGINES_AVAILABLE
TtsEngines == {"gtts", "edge-tts", "piper", "coqui"}
Audio == "mp3"
Endpoints == {"synthesize", "query"}

\* After VoicePipeline.__init__: the engine is one of the available ones and the
\* Coqui model is loaded exactly when the engine is coqui (a failed load falls back
\* to gtts).
InitServer ==
    /\ \E enabled \in BOOLEAN, rag \in BOOLEAN, engine \in TtsEngines :
          srv = [NoSrv EXCEPT !.pc = "idle", !.enabled = enabled, !.rag = rag,
                              !.tts_engine = engine, !.tts_model = (engine = "coqui")]
    /\ sc = NoSc /\ ws = NoWs
    /\ fps = LoopFps /\ cap = NoCap /\ mon = NoMon /\ mt = NoMatch /\ frame = NoFrame
    /\ LoopIdle

ServerOthersUnchanged ==
    UNCHANGED <<fps, cap, mon, mt, use_simple_detector, is_running, audio_stream, thr,
                wake_word_event, conv, gh, frame, sc, ws>>

ErrorReply == [status_code |-> 200, json |-> [status |-> "error", error |-> ErrText]]
Unavailable == [status_code |-> 503, json |-> NoBody]

\* A request arrives: if voice_pipeline is None or not voice_pipeline.enabled (and, for
\* /voice/query, if rag_pipeline is None): raise HTTPException(status_code=503)
Request ==
    /\ srv.pc = "idle"
    /\ srv.served < MaxRequests
    /\ \E endpoint \in Endpoints :
          LET fresh == [srv EXCEPT !.endpoint = endpoint, !.configured = srv.tts_engine,
                                   !.stack = <<>>, !.attempts = <<>>, !.called = {},
                                   !.stt = NoSrv.stt, !.rag_out = "none", !.tts_out = "none",
                                   !.query_text = <<>>, !.answer_text = <<>>,
                                   !.reply = NoSrv.reply, !.served = @ + 1]
          IN  srv' = IF ~srv.enabled \/ (endpoint = "query" /\ ~srv.rag)
                     THEN [fresh EXCEPT !.reply = Unavailable]
                     ELSE [fresh EXCEPT !.pc = IF endpoint = "query" THEN "vq_stt"
                                               ELSE "tts_enter"]
    /\ ServerOthersUnchanged

\* voice_query, step 1: b64decode, process_voice_query; a failed or empty
\* transcription is answered with status error
VQ_Transcribe ==
    /\ srv.pc = "vq_stt"
    /\ \E decoded \in BOOLEAN, stt \in SttOutcomes :
          IF ~decoded
          THEN srv' = [srv EXCEPT !.pc = "idle", !.reply = ErrorReply]
          ELSE LET transcribe_result == process_voice_query(stt)
                   query_text == Strip(DictGet(transcribe_result, "transcription", <<>>))
                   ran == [srv EXCEPT !.called = @ \cup {"transcribe"}, !.stt = stt]
               IN  srv' = IF transcribe_result["status"] # "success" \/ query_text = <<>>
                          THEN [ran EXCEPT !.pc = "idle", !.reply = ErrorReply]
                          ELSE [ran EXCEPT !.pc = "vq_rag", !.query_text = query_text]
    /\ ServerOthersUnchanged

\* voice_query, step 2: rag_pipeline.process_query(query=query_text), which returns a
\* result (whose "response" may be empty) or raises
RagOutcomes == {"raise", "empty", "text"}
VQ_Answer_IgnoresFailure ==
    /\ srv.pc = "vq_rag"
    /\ \E out \in RagOutcomes :
          srv' = [srv EXCEPT !.called = @ \cup {"answer"}, !.rag_out = out,
                             !.answer_text = IF out = "text" THEN AnswerText ELSE <<>>,
                             !.pc = "tts_enter"]
    /\ ServerOthersUnchanged
VQ_Answer ==
    /\ srv.pc = "vq_rag"
    /\ \E out \in RagOutcomes :
          LET ran == [srv EXCEPT !.called = @ \cup {"answer"}, !.rag_out = out]
          IN  srv' = IF out = "raise"
                     THEN [ran EXCEPT !.pc = "idle", !.reply = ErrorReply]
                     ELSE [ran EXCEPT !.pc = "tts_enter",
                                      !.answer_text = IF out = "text" THEN AnswerText
                                                      ELSE <<>>]
    /\ ServerOthersUnchanged

\* synthesize_speech: if not self.enabled: raise RuntimeError
Tts_Enter ==
    /\ srv.pc = "tts_enter"
    /\ srv' = [srv EXCEPT !.called = @ \cup {"synthesize"},
                          !.pc = IF srv.enabled THEN "tts_try" ELSE "tts_raise"]
    /\ ServerOthersUnchanged

\* The try block: the branch of self.tts_engine.  piper sets the engine to gtts and
\* calls synthesize_speech again; coqui without a model raises; every other branch
\* asks its engine for audio, which gives audio, nothing, or an exception.
EngineOutcomes == {"audio", "empty", "raise"}
Tts_Try ==
    /\ srv.pc = "tts_try"
    /\ IF srv.tts_engine = "piper"
       THEN /\ Len(srv.stack) < MaxDepth
            /\ srv' = [srv EXCEPT !.tts_engine = "gtts", !.stack = Append(@, "try"),
                                  !.pc = "tts_enter", !.fallen = TRUE]
       ELSE IF srv.tts_engine = "coqui" /\ ~srv.tts_model
       THEN srv' = [srv EXCEPT !.pc = "tts_except"]
       ELSE \E out \in EngineOutcomes :
               srv' = [srv EXCEPT !.attempts = Append(@, srv.tts_engine),
                                  !.pc = IF out = "audio" THEN "tts_return"
                                         ELSE "tts_except"]
    /\ ServerOthersUnchanged

\* except Exception: if self.tts_engine != "gtts": self.tts_engine = "gtts";
\* return self.synthesize_speech(text); otherwise raise
Tts_Except_KeepsEngine ==
    /\ srv.pc = "tts_except"
    /\ Len(srv.stack) < MaxDepth
    /\ srv' = [srv EXCEPT !.stack = Append(@, "except"), !.pc = "tts_enter",
                          !.fallen = TRUE]
    /\ ServerOthersUnchanged
Tts_Except ==
    /\ srv.pc = "tts_except"
    /\ IF srv.tts_engine # "gtts"
       THEN /\ Len(srv.stack) < MaxDepth
            /\ srv' = [srv EXCEPT !.tts_engine = "gtts", !.stack = Append(@, "except"),
                                  !.pc = "tts_enter", !.fallen = TRUE]
       ELSE srv' = [srv EXCEPT !.pc = "tts_raise"]
    /\ ServerOthersUnchanged

\* A recursive call returns audio: "return self.synthesize_speech(text)" hands it on.
Tts_Return_RestoresEngine ==
    /\ srv.pc = "tts_return"
    /\ srv.stack # <<>>
    /\ srv' = [srv EXCEPT !.stack = SubSeq(@, 1, Len(@) - 1), !.tts_engine = srv.configured]
    /\ ServerOthersUnchanged
Tts_Return ==
    /\ srv.pc = "tts_return"
    /\ srv.stack # <<>>
    /\ srv' = [srv EXCEPT !.stack = SubSeq(@, 1, Len(@) - 1)]
    /\ ServerOthersUnchanged

\* A recursive call raises: a call made inside the try block is caught by the
\* caller's handler, a call made inside the handler leaves the caller too.
Tts_Raise ==
    /\ srv.pc = "tts_raise"
    /\ srv.stack # <<>>
    /\ srv' = [srv EXCEPT !.stack = SubSeq(@, 1, Len(@) - 1),
                          !.pc = IF srv.stack[Len(srv.stack)] = "try" THEN "tts_except"
                                 ELSE "tts_raise"]
    /\ ServerOthersUnchanged

\* POST /voice/synthesize: TTSResponse(status="success", audio=...), or, on an
\* exception, TTSResponse(status="error", error=...)
Syn_Reply ==
    /\ srv.endpoint = "synthesize"
    /\ srv.pc \in {"tts_return", "tts_raise"}
    /\ srv.stack = <<>>
    /\ srv' = [srv EXCEPT !.pc = "idle",
                          !.tts_out = IF srv.pc = "tts_return" THEN "audio" ELSE "raise",
                          !.reply = IF srv.pc = "tts_return"
                                    THEN [status_code |-> 200,
                                          json |-> [status |-> "success", audio |-> Audio,
                                                    error |-> None]]
                                    ELSE [status_code |-> 200,
                                          json |-> [status |-> "error", audio |-> None,
                                                    error |-> ErrText]]]
    /\ ServerOthersUnchanged

\* voice_query, step 3 and the reply: status success with query, answer, audio and
\* sources, or, on an exception, status error
VQ_Reply ==
    /\ srv.endpoint = "query"
    /\ srv.pc \in {"tts_return", "tts_raise"}
    /\ srv.stack = <<>>
    /\ srv' = [srv EXCEPT !.pc = "idle",
                          !.tts_out = IF srv.pc = "tts_return" THEN "audio" ELSE "raise",
                          !.reply = IF srv.pc = "tts_return"
                                    THEN [status_code |-> 200,
                                          json |-> [status |-> "success",
                                                    query |-> srv.query_text,
                                                    answer |-> srv.answer_text,
                                                    audio |-> Audio,
                                                    sources |-> <<>>]]
                                    ELSE ErrorReply]
    /\ ServerOthersUnchanged

NextServer ==
    \/ Request \/ VQ_Transcribe \/ VQ_Answer \/ Tts_Enter \/ Tts_Try \/ Tts_Except
    \/ Tts_Return \/ Tts_Raise \/ Syn_Reply \/ VQ_Reply

SpecServer == InitServer /\ [][NextServer]_vars

(***************************************************************************)
(* SpecSimple: the client without wake word (src/src/client_simple.py)     *)
(* against the server's /voice/transcribe and /voice/query.  sc.pc is at   *)
(*   "greet"       the initial greeting;                                   *)
(*   "loop"        the top of "while True";                                *)
(*   "transcribe"  the utterance is recorded, before POST /voice/transcribe;*)
(*   "query"       before POST /voice/query;                               *)
(*   "play"        a success reply of /voice/query is in hand;             *)
(*   "sleep"       in an except handler of the loop;                       *)
(*   "ended"       after the loop.                                         *)
(* sc.heard is the transcription the server sent in this round and         *)
(* sc.calls the endpoints called in it (history, not program state).       *)
(***************************************************************************)
Bye == <<"b","y","e">>
Goodbye_ == <<"g","o","o","d","b","y","e">>
Quit == <<"q","u","i","t">>
\* ["bye", "exit", "goodbye", "quit"]
exit_words == <<Bye, ExitWord, Goodbye_, Quit>>

\* any(exit_word in query_text.lower() for exit_word in [...])
HasExitWord(query_text) ==
    \E i \in 1..Len(exit_words) : Contains(Lower(query_text), exit_words[i])

\* What requests.post(.../voice/query) gives its caller: a reply of voice_query, its
\* 503, or no reply at all (status_code 0: the call raised).
QueryResponses ==
    {[status_code |-> 200,
      json |-> [status |-> "success", query |-> u, answer |-> a, audio |-> Audio,
                sources |-> <<>>]] : u \in Utterances \ {<<>>}, a \in {<<>>, AnswerText}}
    \cup {ErrorReply, Unavailable, [status_code |-> 0, json |-> NoBody]}

InitSimple ==
    /\ sc = [NoSc EXCEPT !.pc = "greet"]
    /\ srv = NoSrv /\ ws = NoWs
    /\ fps = LoopFps /\ cap = NoCap /\ mon = NoMon /\ mt = NoMatch /\ frame = NoFrame
    /\ LoopIdle

SimpleOthersUnchanged ==
    UNCHANGED <<fps, cap, mon, mt, use_simple_detector, is_running, audio_stream, thr,
                wake_word_event, conv, gh, frame, srv, ws>>

\* The initial greeting: synthesize and play; a failure is only a warning.
SC_Greeting ==
    /\ sc.pc = "greet"
    /\ sc' = [sc EXCEPT !.pc = "loop"]
    /\ SimpleOthersUnchanged

\* conversation_count += 1; if not record_audio(TEMP_QUERY_FILE): continue
SC_Record ==
    /\ sc.pc = "loop"
    /\ sc.conversation_count < MaxQuestions
    /\ \E recorded \in BOOLEAN :
          sc' = [sc EXCEPT !.conversation_count = @ + 1, !.heard = <<>>, !.calls = {},
                           !.query_text = <<>>, !.answer_text = <<>>,
                           !.pc = IF recorded THEN "transcribe" ELSE "loop"]
    /\ SimpleOthersUnchanged

\* POST /voice/transcribe and what follows it: query_text is read from the key
\* "text" of the reply; with an exit word in it the goodbye is synthesized and played
\* and the loop is left (an exception of that request goes to the handler instead).
SC_AfterTranscribe(response, goodbye_raises) ==
    IF response.status_code = 0 THEN [sc EXCEPT !.pc = "sleep"]
    ELSE IF response.status_code # 200 THEN [sc EXCEPT !.pc = "loop"]
    ELSE IF DictGet(response.json, "status", "None") # "success"
    THEN [sc EXCEPT !.pc = "loop"]
    ELSE LET query_text == Strip(DictGet(response.json, "text", <<>>))
         IN  IF HasExitWord(query_text)
             THEN [sc EXCEPT !.query_text = query_text,
                             !.pc = IF goodbye_raises THEN "sleep" ELSE "ended"]
             ELSE [sc EXCEPT !.query_text = query_text, !.pc = "query"]

SC_Transcribe ==
    /\ sc.pc = "transcribe"
    /\ \E response \in TranscribeResponses, goodbye_raises \in BOOLEAN :
          sc' = [SC_AfterTranscribe(response, goodbye_raises)
                    EXCEPT !.calls = @ \cup {"transcribe"},
                           !.heard = SentTranscript(response)]
    /\ SimpleOthersUnchanged

\* POST /voice/query with the recorded audio; answer_text = query_result.get("answer", "")
SC_Query ==
    /\ sc.pc = "query"
    /\ \E response \in QueryResponses :
          sc' = [sc EXCEPT !.calls = @ \cup {"query"},
                           !.answer_text =
                               IF response.status_code = 200
                                  /\ DictGet(response.json, "status", "None") = "success"
                               THEN DictGet(response.json, "answer", <<>>)
                               ELSE <<>>,
                           !.pc = IF response.status_code = 0 THEN "sleep"
                                  ELSE IF response.status_code # 200 THEN "loop"
                                  ELSE IF DictGet(response.json, "status", "None") # "success"
                                  THEN "loop"
                                  ELSE "play"]
    /\ SimpleOthersUnchanged

\* The answer is printed, its audio played, the temporary files removed.
SC_Play ==
    /\ sc.pc = "play"
    /\ sc' = [sc EXCEPT !.pc = "loop"]
    /\ SimpleOthersUnchanged

\* except ConnectionError / except Exception: time.sleep
SC_Sleep ==
    /\ sc.pc = "sleep"
    /\ sc' = [sc EXCEPT !.pc = "loop"]
    /\ SimpleOthersUnchanged

\* except KeyboardInterrupt: break
SC_Interrupt ==
    /\ sc.pc \in {"loop", "transcribe", "query", "play"}
    /\ sc' = [sc EXCEPT !.pc = "ended"]
    /\ SimpleOthersUnchanged

NextSimple ==
    \/ SC_Greeting \/ SC_Record \/ SC_Transcribe \/ SC_Query \/ SC_Play \/ SC_Sleep
    \/ SC_Interrupt

SpecSimple == InitSimple /\ [][NextSimple]_vars

(***************************************************************************)
(* SpecWs: one WebSocket connection to websocket_endpoint                  *)
(* (src/server/api_server.py).  The client end is one of the query         *)
(* routines send_query (src/client.py), send_query_and_get_response        *)
(* (src/src/client_wake_word.py), query (src/client_minimal.py), query_rag *)
(* (src/voice_client.py), each sending one query, or "peer": any other     *)
(* program, which sends up to MaxQueries messages and reads what comes.    *)
(* ws.c2s and ws.s2c are the messages in flight in each direction.         *)
(* ws.cpc is "send", "recv", "returned" or "raised"; ws.spc is "accept",   *)
(* "receive", "process" or "done".  ws.sent lists the status of the        *)
(* messages the server sent for the query it took last, and ws.failed      *)
(* tells whether processing a query has ever failed (history).             *)
(***************************************************************************)
QueryRoutines == {"send_query", "send_query_and_get_response", "query", "query_rag"}
WsClients == QueryRoutines \cup {"peer"}
\* The query strings sent: the empty string and a question.
WsQueries == {<<>>, WhereIsSunway}

InitWs ==
    /\ \E client \in WsClients, rag \in BOOLEAN :
          ws = [NoWs EXCEPT !.client = client, !.rag = rag, !.cpc = "send", !.spc = "accept"]
    /\ srv = NoSrv /\ sc = NoSc
    /\ fps = LoopFps /\ cap = NoCap /\ mon = NoMon /\ mt = NoMatch /\ frame = NoFrame
    /\ LoopIdle

WsOthersUnchanged ==
    UNCHANGED <<fps, cap, mon, mt, use_simple_detector, is_running, audio_stream, thr,
                wake_word_event, conv, gh, frame, srv, sc>>

\* await websocket.accept(); if rag_pipeline is None: send {"error": ...}, close, return
WS_Accept ==
    /\ ws.spc = "accept"
    /\ ws' = IF ws.rag
             THEN [ws EXCEPT !.spc = "receive"]
             ELSE [ws EXCEPT !.spc = "done", !.sclosed = TRUE,
                             !.s2c = Append(@, [error |-> ErrText])]
    /\ WsOthersUnchanged

\* data = await websocket.receive_json(); an empty query is answered {"error": "Empty
\* query"} and the loop continues; otherwise the status "processing" is sent
WS_Receive ==
    /\ ws.spc = "receive"
    /\ ws.c2s # <<>>
    /\ LET query == DictGet(Head(ws.c2s), "query", <<>>)
       IN  ws' = IF query = <<>>
                 THEN [ws EXCEPT !.c2s = Tail(@), !.sent = <<>>,
                                 !.s2c = IF ws.cclosed THEN @
                                         ELSE Append(@, [error |-> ErrText]),
                                 !.spc = IF ws.cclosed THEN "done" ELSE "receive"]
                 ELSE [ws EXCEPT !.c2s = Tail(@),
                                 !.sent = IF ws.cclosed THEN <<>> ELSE <<"processing">>,
                                 !.s2c = IF ws.cclosed THEN @
                                         ELSE Append(@, [status |-> "processing"]),
                                 !.spc = IF ws.cclosed THEN "done" ELSE "process"]
    /\ WsOthersUnchanged

\* receive_json raises WebSocketDisconnect: the client has closed the connection
WS_Disconnect ==
    /\ ws.spc = "receive"
    /\ ws.c2s = <<>> /\ ws.cclosed
    /\ ws' = [ws EXCEPT !.spc = "done"]
    /\ WsOthersUnchanged

\* rag_pipeline.process_query and the terminal message: status "complete", or, on an
\* exception, status "error"; then the next receive_json.  When the client has closed
\* the connection the send raises, so does the send in the handler, and the endpoint
\* returns.
WS_Process_ClosesOnFailure ==
    /\ ws.spc = "process"
    /\ \E raised \in BOOLEAN :
          ws' = IF ws.cclosed
                THEN [ws EXCEPT !.spc = "done", !.failed = @ \/ raised]
                ELSE IF raised
                THEN [ws EXCEPT !.spc = "done", !.sclosed = TRUE, !.failed = TRUE,
                                !.sent = Append(@, "error"),
                                !.s2c = Append(@, [status |-> "error", error |-> ErrText])]
                ELSE [ws EXCEPT !.spc = "receive", !.sent = Append(@, "complete"),
                                !.s2c = Append(@, [status |-> "complete",
                                                   response |-> AnswerText])]
    /\ WsOthersUnchanged
WS_Process ==
    /\ ws.spc = "process"
    /\ \E raised \in BOOLEAN :
          ws' = IF ws.cclosed
                THEN [ws EXCEPT !.spc = "done", !.failed = @ \/ raised]
                ELSE [ws EXCEPT !.spc = "receive", !.failed = @ \/ raised,
                                !.sent = Append(@, IF raised THEN "error" ELSE "complete"),
                                !.s2c = Append(@, IF raised
                                                  THEN [status |-> "error", error |-> ErrText]
                                                  ELSE [status |-> "complete",
                                                        response |-> AnswerText])]
    /\ WsOthersUnchanged

\* await websocket.send(json.dumps({"query": query, "top_k": 5})): a query routine
\* sends its one query, a peer up to MaxQueries messages
Client_Send ==
    /\ ws.cpc \in {"send", "recv"}
    /\ ws.cpc = "recv" => ws.client = "peer"
    /\ ws.queries < (IF ws.client = "peer" THEN MaxQueries ELSE 1)
    /\ \E query \in WsQueries :
          ws' = [ws EXCEPT !.c2s = Append(@, [query |-> query]), !.queries = @ + 1,
                           !.cpc = "recv"]
    /\ WsOthersUnchanged

\* What a routine does with a message: "again" (back to recv()), "return" or "raise".
\* send_query and send_query_and_get_response break on any status other than
\* "processing"; query and query_rag have no branch for a message without "complete"
\* or "error" and go round their loop.
OnMessage(client, data) ==
    LET status == DictGet(data, "status", "None")
    IN  IF status = "processing" THEN "again"
        ELSE IF status = "complete" THEN "return"
        ELSE IF status = "error" THEN (IF client = "query_rag" THEN "raise" ELSE "return")
        ELSE IF client \in {"send_query", "send_query_and_get_response"} THEN "return"
        ELSE "again"

\* response = await websocket.recv(); data = json.loads(response); the status branches.
\* Leaving the "async with" block closes the connection.
Client_Recv ==
    /\ ws.cpc = "recv"
    /\ ws.s2c # <<>>
    /\ LET todo == IF ws.client = "peer" THEN "again" ELSE OnMessage(ws.client, Head(ws.s2c))
       IN  ws' = [ws EXCEPT !.s2c = Tail(@),
                            !.cpc = IF todo = "again" THEN "recv"
                                    ELSE IF todo = "return" THEN "returned" ELSE "raised",
                            !.cclosed = (todo # "again")]
    /\ WsOthersUnchanged

\* recv() (or send()) on a connection the server has closed raises ConnectionClosed:
\* query_rag lets it through, the other routines catch it and return
Client_Closed ==
    /\ ws.cpc \in {"send", "recv"}
    /\ ws.client # "peer"
    /\ ws.s2c = <<>> /\ ws.sclosed
    /\ ws' = [ws EXCEPT !.cpc = IF ws.client = "query_rag" THEN "raised" ELSE "returned",
                        !.cclosed = TRUE]
    /\ WsOthersUnchanged

\* A peer closes the connection when it likes.
Peer_Close ==
    /\ ws.client = "peer"
    /\ ws.cpc \in {"send", "recv"}
    /\ ws' = [ws EXCEPT !.cpc = "returned", !.cclosed = TRUE]
    /\ WsOthersUnchanged

NextWs ==
    \/ WS_Accept \/ WS_Receive \/ WS_Disconnect \/ WS_Process
    \/ Client_Send \/ Client_Recv \/ Client_Closed \/ Peer_Close

SpecWs == InitWs /\ [][NextWs]_vars

(***************************************************************************)
(* The claims.                                                             *)
(***************************************************************************)
Range(a, b) == [i \in 1..(b - a + 1) |-> a + i - 1]
ListenerAt(pcs) == \E t \in Threads : thr[t].pc \in pcs

\* C1 (Spec): the listener is never inside audio_stream.read of _listen_loop while
\* the conversation loop is inside stream.read of record_audio_continuous.
MicrophoneMutualExclusion == ~(ListenerAt({"read"}) /\ conv.pc = "q_read")

\* C2 (Spec): while the conversation loop runs its query capture, every listener
\* thread has left _listen_loop.
PauseIsSynchronous ==
    conv.pc \in {"q_read", "q_end"} => \A t \in Threads : thr[t].pc = "dead"

NoRecordingBelowMinConsecutiveSpeech ==
    ~mon.sawRun => (~cap.c.speech_detected /\ cap.c.frames = <<>>)

\* C5 (SpecCapture): a capture never reads more than max-duration worth of frames;
\* once it has read that many, its loop is over.
CaptureWithinFrameBudget ==
    cap.c.reads >= cap.max_frames =>
        /\ cap.c.reads = cap.max_frames
        /\ cap.kind = "gate" => GateLoopOver(cap.c, cap.max_frames)
        /\ cap.kind = "query" => QueryLoopOver(cap.c, cap.max_frames)

\* C6 (SpecCapture): once recording, no frame is read after the trailing silence run
\* has reached the threshold, and the capture ends by silence timeout exactly when
\* that run has reached the threshold (otherwise by max-duration).
SilenceTimeoutIffThresholdReached ==
    cap.c.speech_detected =>
        /\ ~mon.overrun
        /\ cap.ret # "running" =>
              (Reason(cap.c) = "silence-timeout" <=> mon.trail >= cap.threshold)

WakePhraseInReplyActivates == \A t \in Threads : thr[t].wake => thr[t].raised

\* C10 (Spec): from the raising of an activation event until the next resume(), no
\* listener thread reads the device or submits a transcription.
GateStopsAfterActivation == gh.fired => ~ListenerAt({"read", "http"})

HasExitPhrase(text) == \E i \in 1..Len(EXIT_COMMANDS) : Contains(text, EXIT_COMMANDS[i])
Exiting == {"goodbye", "cleanup", "join", "done"}
Alive == {"while", "for", "read", "post", "http", "sleep"}

\* C11 (Spec): when the transcript the server sent contains an exit phrase, the step
\* that receives it takes the conversation loop to the goodbye (Exiting), and the
\* answer contract is not called in that turn.
ExitPhraseSkipsAnswer ==
    [][/\ HasExitPhrase(gh'.heard) => "answer" \notin gh'.calls
       /\ (conv.pc = "transcribe" /\ HasExitPhrase(gh'.heard)) => conv'.pc = "goodbye"]_vars
\* C11 witness: "okay bye zyra" was transcribed and the loop is at the goodbye.
OkayByeZyraExits ==
    conv.pc = "goodbye" /\ gh.heard = OkayByeZyra /\ "answer" \notin gh.calls

\* C12 (Spec): once the conversation loop is Exiting it stays Exiting (goodbye,
\* cleanup, return) and the gate is not resumed.
ExitingIsTerminal ==
    [][conv.pc \in Exiting => (conv'.pc \in Exiting /\ (is_running' => is_running))]_vars

\* C13 (Spec): back at the wait after a turn whose transcription failed (status error,
\* non-200, or the request raised), the gate is resumed, neither Answer nor
\* Synthesize was called, and the loop's consecutive-error count has grown by the
\* failure (it equals the number of consecutive failed turns).
TranscribeFailureCounted ==
    (conv.pc = "wait" /\ conv.why \in {"exception", "http_status", "status_error"}) =>
        /\ is_running
        /\ gh.calls = {"transcribe"}
        /\ consecutive_errors = gh.failures

\* C14 (Spec): when the number of consecutive failed turns has reached
\* MAX_CONSECUTIVE_ERRORS the conversation loop is Exiting.
ExitsAtMaxConsecutiveErrors ==
    gh.failures >= MAX_CONSECUTIVE_ERRORS => conv.pc \in Exiting

\* C15 (Spec): after a failed transcription call of the gate (it raised, non-200,
\* non-success or malformed reply) the listener thread is back at its while loop
\* and has raised no activation for that capture.
GateSurvivesTranscribeFailure ==
    \A t \in Threads : thr[t].failed => (thr[t].pc = "while" /\ ~thr[t].raised)
\* C15 witness: a listener thread is back at its loop after a failed call, the gate running.
GateLoopsAfterFailedCall ==
    \E t \in Threads : thr[t].failed /\ thr[t].pc = "while" /\ is_running /\ ~wake_word_event

NonEmptyTranscriptForwarded ==
    (Strip(gh.heard) # <<>> /\ ~HasExitPhrase(Lower(gh.heard))) =>
        (conv.pc = "answer" \/ "answer" \in gh.calls)
\* C17 as amended (Spec): a transcript shorter than 3 characters after stripping
\* (the empty one included) is no actionable input: the turn ends at the wait with
\* the gate resumed and only Transcribe called; every transcript of 3 characters or
\* more without an exit phrase is forwarded to the answer contract.
ShortTranscriptIsNoInput ==
    /\ (conv.pc = "wait" /\ conv.why = "empty") =>
          (is_running /\ gh.calls = {"transcribe"} /\ Len(Strip(gh.heard)) < MIN_QUERY_LEN)
    /\ ("transcribe" \in gh.calls /\ Len(Strip(gh.heard)) < MIN_QUERY_LEN) =>
          ("answer" \notin gh.calls /\ conv.pc \notin {"answer", "goodbye"})
    /\ (Len(Strip(gh.heard)) >= MIN_QUERY_LEN /\ ~HasExitPhrase(Lower(gh.heard))) =>
          (conv.pc = "answer" \/ "answer" \in gh.calls)
\* C17 witness: the transcript "hi" ended the turn as no input.
HiIsNoInput ==
    conv.pc = "wait" /\ conv.why = "empty" /\ gh.heard = Hi /\ is_running

\* C19 (Spec): while the conversation loop waits for an activation, a listener
\* thread is alive.
GateAliveWhileIdle == conv.pc = "wait" => ListenerAt(Alive)

\* C18 (SpecLive): once the query has been captured and the remote requests of the
\* turn begin, the conversation loop eventually is back at the wait or Exiting.
RemoteRequestsReturn == (conv.pc = "transcribe") ~> (conv.pc \in {"wait"} \cup Exiting)

ListenerOnlyRaisesEvent ==
    [][(\E t \in Threads : thr[t].pc # "dead" /\ thr'[t].pc # thr[t].pc) =>
          /\ is_running' = is_running
          /\ audio_stream' = audio_stream
          /\ conv' = conv
          /\ wake_word_event => wake_word_event']_vars
\* C21 witness: a listener has raised the event and the conversation loop has not yet moved.
EventRaisedByListener ==
    conv.pc = "wait" /\ wake_word_event /\ gh.fired /\ is_running

\* C22 (Spec): after pause(), and until resume(), a listener thread makes at most one
\* further device read.
PauseLatencyOneFrame == \A t \in Threads : thr[t].late <= 1
\* C22 witness: a thread, paused while in its read, has finished that read.
OneLateRead ==
    \E t \in Threads : thr[t].late = 1 /\ ~is_running /\ thr[t].pc \in {"for", "while"}

\* C30 (Spec): at most one listener thread is alive.
OneListenerThread == Cardinality({t \in Threads : thr[t].pc # "dead"}) <= 1

\* C23 (Spec): within a turn Transcribe, Answer and Synthesize are each called at most
\* once and in that order: Answer only after a successful transcription that is not
\* empty and holds no exit phrase, Synthesize of the answer only after Answer gave a
\* non-empty text, playback only after Synthesize succeeded; after a failed step no
\* later step has run.
ContractsInOrder ==
    /\ conv.pc = "transcribe" => gh.calls = {}
    /\ conv.pc = "answer" => gh.calls = {"transcribe"}
    /\ conv.pc = "synth" => gh.calls = {"transcribe", "answer"}
    /\ conv.pc = "play" => gh.calls = {"transcribe", "answer", "synthesize"} /\ conv.why = "none"
    /\ (conv.pc = "answer" \/ "answer" \in gh.calls) =>
          /\ "transcribe" \in gh.calls
          /\ Strip(gh.heard) # <<>>
          /\ ~HasExitPhrase(Lower(gh.heard))
    /\ (conv.pc = "synth" \/ ("synthesize" \in gh.calls /\ "answer" \in gh.calls)) =>
          conv.why # "answer_failed"
    /\ conv.pc \in {"synth", "play"} => conv.response_text # <<>>
    /\ conv.why \in {"norec", "exception", "http_status", "status_error", "empty"} =>
          gh.calls \subseteq {"transcribe"}
    /\ conv.why = "answer_failed" => gh.calls = {"transcribe", "answer"}
    /\ conv.why = "synth_failed" => conv.pc \in {"resume", "wait"}
\* C23 witness: the answer is being played, all three contracts having been used.
AnswerBeingPlayed ==
    conv.pc = "play" /\ gh.calls = {"transcribe", "answer", "synthesize"}

\* C25 (SpecServer): one synthesize_speech request asks at most two engines for audio,
\* the configured engine and then gtts, and holds at most one recursive call; after
\* the second attempt it returns or raises.
TtsAtMostTwoAttempts ==
    /\ Len(srv.attempts) <= 2
    /\ Len(srv.stack) <= 1
    /\ Len(srv.attempts) >= 1 => srv.attempts[1] \in {srv.configured, "gtts"}
    /\ Len(srv.attempts) = 2 =>
          /\ srv.attempts[1] = srv.configured /\ srv.attempts[1] # "gtts"
          /\ srv.attempts[2] = "gtts"
          /\ srv.pc \in {"tts_return", "tts_raise", "tts_except", "idle"}
\* C25 witness: the configured engine and then gtts have both failed, and the request
\* raises to the endpoint.
BothEnginesFailed ==
    Len(srv.attempts) = 2 /\ srv.pc = "tts_raise" /\ srv.stack = <<>>

\* C26 (SpecServer): /voice/query calls answer only after a successful non-empty
\* transcription and synthesize only after answer returned; a reply after a failed
\* step has status error and no audio; a success reply carries the query text, the
\* answer and the audio, and is sent exactly when all three steps succeeded.  A server
\* without voice features or RAG pipeline answers 503 without running a step.
VoiceQueryStopsAtFirstFailure ==
    srv.endpoint = "query" =>
       /\ "answer" \in srv.called =>
             "transcribe" \in srv.called /\ srv.stt.ok /\ Strip(srv.stt.text) # <<>>
       /\ "synthesize" \in srv.called => "answer" \in srv.called /\ srv.rag_out # "raise"
       /\ srv.reply.status_code = 503 => srv.called = {}
       /\ srv.reply.status_code = 200 =>
             /\ srv.pc = "idle"
             /\ srv.reply.json["status"] \in {"success", "error"}
             /\ srv.reply.json["status"] = "error" => "audio" \notin DOMAIN srv.reply.json
             /\ srv.reply.json["status"] = "success" <=>
                   /\ srv.called = {"transcribe", "answer", "synthesize"}
                   /\ srv.tts_out = "audio"
             /\ srv.reply.json["status"] = "success" =>
                   /\ {"query", "answer", "audio"} \subseteq DOMAIN srv.reply.json
                   /\ srv.reply.json["query"] = Strip(srv.stt.text)
                   /\ srv.reply.json["query"] # <<>>
                   /\ srv.reply.json["answer"] = srv.answer_text
                   /\ srv.reply.json["audio"] = Audio
\* C26 witness: the answer step raised; the reply is an error and the synthesizer was
\* not called.
AnswerFailedNoSynthesis ==
    /\ srv.endpoint = "query" /\ srv.pc = "idle" /\ srv.rag_out = "raise"
    /\ srv.called = {"transcribe", "answer"}
    /\ srv.reply.status_code = 200 /\ srv.reply.json["status"] = "error"

\* C24 (SpecSimple): in a round whose successful transcription holds an exit word the
\* simple client does not go on to /voice/query.
SimpleExitWordQuits ==
    HasExitWord(sc.heard) => (sc.pc # "query" /\ "query" \notin sc.calls)

\* C27 (SpecCapture): the frames a capture retains are exactly the frames read from
\* the first speech frame on, in order and with none skipped; before any speech
\* frame nothing is retained.
UtteranceIsContiguousRun ==
    /\ cap.c.reads = mon.n
    /\ cap.c.speech_detected <=> mon.first # 0
    /\ cap.c.frames = IF mon.first = 0 THEN <<>> ELSE Range(mon.first, mon.n)
\* C27 witness: a query capture that began after leading silence ended on the silence
\* timeout and returned its file.
LateSpeechCaptured ==
    /\ cap.kind = "query" /\ cap.ret = "file" /\ cap.c.brk
    /\ mon.first > 1 /\ cap.c.frames[1] = mon.first

\* C28 (SpecCapture): while recording, silence_frames is the length of the trailing
\* run of silence frames, and a capture that broke on silence has a trailing run of at
\* least the threshold.
SilenceCounterIsTrailingRun ==
    /\ cap.c.speech_detected => cap.c.silence_frames = mon.trail
    /\ cap.c.brk => (cap.c.speech_detected /\ mon.trail >= cap.threshold)
    /\ (cap.kind = "query" /\ cap.c.speech_detected) => (cap.c.brk <=> mon.trail >= cap.threshold)
\* C28 witness: a speech frame interrupted the trailing silence, and the capture later
\* ended on a full run of silence.
SilenceRestartedThenTimedOut ==
    mon.restarted /\ cap.c.brk /\ cap.ret # "running"

\* C29 (Spec): from the greeting to the end of the query capture the gate is paused
\* (pause() was called and no resume() since), and whatever the outcome of the
\* greeting the next step of the conversation loop is the query capture.
PausedBeforeGreetingAndCapture ==
    /\ [](conv.pc \in {"greet", "record", "q_read", "q_end"} => ~is_running)
    /\ [][conv.pc = "greet" => conv'.pc \in {"greet", "record"}]_vars
    /\ [](conv.pc \in {"record", "q_read", "q_end"} => gh.greeting \in GreetingOutcomes)
\* C29 witness: the query capture is reading frames after a greeting that raised.
CaptureAfterFailedGreeting ==
    conv.pc = "q_read" /\ gh.greeting = "raised" /\ ~is_running

\* C34 (SpecServer): once a synthesize_speech call has fallen back, the pipeline's
\* engine is gtts and stays gtts, and every engine asked for audio from then on is
\* gtts.
FallbackIsSticky ==
    /\ [](srv.fallen => srv.tts_engine = "gtts")
    /\ [][srv.fallen => (srv'.fallen /\ srv'.tts_engine = "gtts")]_vars
    /\ [][(srv.fallen /\ Len(srv'.attempts) > Len(srv.attempts)) =>
             srv'.attempts[Len(srv'.attempts)] = "gtts"]_vars
\* C34 witness: a request that came after a fallback found gtts configured and asked
\* gtts at once.
LaterRequestUsesGtts ==
    /\ srv.fallen /\ srv.served >= 2 /\ srv.configured = "gtts"
    /\ srv.attempts = <<"gtts">> /\ srv.stack = <<>>

\* C31 (Spec): the conversation loop leaves its wait for the activation event only on
\* a wake-word detection made since it last came back to the wait (or since the
\* start), never on an event left set from an earlier turn.
ActivationHasFreshWakeWord ==
    [][(conv.pc = "wait" /\ conv'.pc = "clear") => gh.fired]_vars

\* C32 (SpecWs): for a non-empty query the server sends "processing" and then one of
\* "complete" and "error", nothing else; after the terminal message it is back at
\* receive_json with the connection open, also when processing failed.
WsProcessingThenTerminal ==
    /\ [](/\ ws.spc = "process" => ws.sent = <<"processing">>
          /\ Len(ws.sent) <= 2
          /\ Len(ws.sent) = 2 =>
                ws.sent[1] = "processing" /\ ws.sent[2] \in {"complete", "error"}
          /\ ~ws.rag \/ ~ws.sclosed)
    /\ [][(ws.spc = "process" /\ ws'.spc # "process" /\ ~ws.cclosed) =>
             /\ ws'.spc = "receive" /\ ~ws'.sclosed
             /\ Len(ws'.sent) = 2
             /\ Len(ws'.s2c) = Len(ws.s2c) + 1]_vars
    /\ [][(ws.spc = "receive" /\ ws'.spc = "process") =>
             /\ Len(ws'.s2c) = Len(ws.s2c) + 1
             /\ ws'.s2c[Len(ws'.s2c)]["status"] = "processing"]_vars
\* C32 witness: after a query whose processing failed the server has taken the next
\* query on the same connection.
NextQueryAfterFailure ==
    ws.failed /\ ws.spc = "process" /\ ws.queries = 2 /\ ~ws.sclosed /\ ~ws.cclosed

\* C33 (SpecWs): a query routine is never waiting in recv() with nothing in flight
\* while the server is waiting in receive_json with nothing in flight.
NoWsDeadlock ==
    ~(/\ ws.client \in QueryRoutines
      /\ ws.cpc = "recv" /\ ws.spc = "receive"
      /\ ws.c2s = <<>> /\ ws.s2c = <<>>)

====
